---- MODULE Spec2Model ----
(***************************************************************************)
(* QQ bot webhook: the FastAPI callback route of qqbot_webhook.py, the     *)
(* key derivation it runs at import, and the event dispatch of             *)
(* webhook_handler.py / qqbot_utils.py.                                    *)
(*                                                                         *)
(* Byte strings and text are sequences of small naturals.  A request body  *)
(* is a byte string; json_loads decodes it.  A signature is the pair       *)
(* (key, message) it was made from, so it verifies under exactly that key  *)
(* and that message (Ed25519 is deterministic and unforgeable).            *)
(*                                                                         *)
(* The asyncio runtime runs one task per request and switches tasks only   *)
(* at an await, so every action is the code between two awaits.            *)
(***************************************************************************)
EXTENDS Integers, Sequences, FiniteSets, TLC

VARIABLES
    proc,     \* "init" | "serving" | "crashed": the module import of qqbot_webhook.py
    secret,   \* BOT_SECRET, the configured text (code points)
    key,      \* _SIGNING_KEY / _VERIFY_KEY: the seed the pair was built from
    task,     \* the request tasks of the route, one record per task
    last,     \* the request that completed most recently, with its response
    call,     \* the calls of webhook_handler.dispatch_event, one record per call
    posts,    \* the replies post_c2c_message has delivered, per msg_id of an event
    known,    \* the signatures a client without the secret has been given
    sink,     \* qqbot_webhook.log as webhook_handler.write_log has written it
    started   \* how many dispatch_event calls have been made

vars == <<proc, secret, key, task, last, call, posts, known, sink, started>>

(***************************************************************************)
(* Bounds of the model.                                                    *)
(***************************************************************************)
MaxTasks == 2        \* request tasks in flight at once
MaxCalls == 2        \* dispatch_event calls in flight at once
MaxSecretLen == 34   \* longest secret tried by the key derivation
MaxPosts == 2        \* replies counted per msg_id
MaxDispatches == 2   \* dispatch_event calls made in all

Tasks == 1..MaxTasks
Calls == 1..MaxCalls

(***************************************************************************)
(* Key derivation: seed_from_secret.                                       *)
(***************************************************************************)
SeedLen == 32

\* BOT_SECRET of qqbot_webhook.py, "your_bot_secret_here"
BOT_SECRET ==
    <<121, 111, 117, 114, 95, 98, 111, 116, 95, 115,
      101, 99, 114, 101, 116, 95, 104, 101, 114, 101>>

\* BOT_SECRET of qqbot_utils.py, "your_bot_secret": the key of another module
UTILS_BOT_SECRET ==
    <<121, 111, 117, 114, 95, 98, 111, 116, 95, 115, 101, 99, 114, 101, 116>>

\* str.encode("utf-8") of one code point below U+0800
Utf8Char(cp) ==
    IF cp < 128 THEN <<cp>> ELSE <<192 + (cp \div 64), 128 + (cp % 64)>>

RECURSIVE encode_utf8(_)
encode_utf8(s) ==
    IF s = <<>> THEN <<>> ELSE Utf8Char(Head(s)) \o encode_utf8(Tail(s))

\* while len(b) < 32: b = b + b
RECURSIVE Doubled(_)
Doubled(b) == IF Len(b) < SeedLen THEN Doubled(b \o b) ELSE b

\* the derivation without `return b[:32]`
NoTruncate(b) == b

Truncate(b) == SubSeq(b, 1, SeedLen)

\* the derivation without `if not secret: raise`: the empty secret gives no bytes
seed_from_secret_unchecked(s) ==
    [ok |-> TRUE, seed |-> IF s = <<>> THEN <<>> ELSE Truncate(Doubled(encode_utf8(s)))]

seed_from_secret(s) ==
    IF s = <<>>
    THEN [ok |-> FALSE, seed |-> <<>>]             \* RuntimeError("BOT_SECRET is empty")
    ELSE [ok |-> TRUE, seed |-> Truncate(Doubled(encode_utf8(s)))]

\* The secrets tried by the key derivation: every length up to MaxSecretLen,
\* three contents per length, the third with two-byte code points.
SecretText(n, k) ==
    [i \in 1..n |-> IF k = 3 /\ i % 3 = 0 THEN 200 + i ELSE 32 + ((i * (k + 1)) % 90)]

SeedSecrets == {SecretText(n, k) : n \in 0..MaxSecretLen, k \in 1..3}

Secrets == {<<>>, BOT_SECRET}

(***************************************************************************)
(* JSON values as json.loads returns them, and the Python operations the   *)
(* route applies to them.                                                  *)
(***************************************************************************)
Absent == [ty |-> "absent", n |-> 0, s |-> <<>>]     \* the key is not in the dict
JNull == [ty |-> "null", n |-> 0, s |-> <<>>]        \* None
JInt(k) == [ty |-> "int", n |-> k, s |-> <<>>]
JFloat(k) == [ty |-> "float", n |-> k, s |-> <<>>]   \* the float k.0
JBool(b) == [ty |-> "bool", n |-> IF b THEN 1 ELSE 0, s |-> <<>>]
JStr(x) == [ty |-> "str", n |-> 0, s |-> x]
JList(k) == [ty |-> "list", n |-> k, s |-> <<>>]     \* a list of k elements

\* the dict d of an envelope, with the keys the route and the handlers read
JObj(pt, ets, id, content) ==
    [ty |-> "obj", plain_token |-> pt, event_ts |-> ets, id |-> id, content |-> content]

EmptyDict == JObj(Absent, Absent, Absent, Absent)    \* {}

IsNumber(v) == v.ty \in {"int", "float", "bool"}

\* Python's v == k for an int literal k: True == 1, False == 0, 13.0 == 13
PyEqInt(v, k) == IsNumber(v) /\ v.n = k

\* Python's v == "text"
PyEqStr(v, x) == v.ty = "str" /\ v.s = x

\* Python truth value, as in `payload.get("d") or {}`
Truthy(v) ==
    CASE v.ty \in {"absent", "null"} -> FALSE
      [] IsNumber(v) -> v.n # 0
      [] v.ty = "str" -> v.s # <<>>
      [] v.ty = "list" -> v.n # 0
      [] v.ty = "obj" -> v # EmptyDict

\* dict.get(key) with no default: a missing key gives None
GetOrNone(v) == IF v.ty = "absent" THEN JNull ELSE v

\* dict.get(key, default): only a missing key gives the default
GetOr(v, default) == IF v.ty = "absent" THEN default ELSE v

\* a lone surrogate, which json.loads accepts ("\ud800") and utf-8 cannot encode
Surrogate == 55296

HasSurrogate(v) == v.ty = "str" /\ \E i \in 1..Len(v.s) : v.s[i] = Surrogate

\* a + b of Python, then whether the result has .encode: only str + str has
PyAdd(a, b) ==
    IF a.ty = "str" /\ b.ty = "str" THEN [ok |-> TRUE, v |-> JStr(a.s \o b.s)]
    ELSE IF IsNumber(a) /\ IsNumber(b) THEN [ok |-> TRUE, v |-> JInt(a.n + b.n)]
    ELSE IF a.ty = "list" /\ b.ty = "list" THEN [ok |-> TRUE, v |-> JList(a.n + b.n)]
    ELSE [ok |-> FALSE, v |-> JNull]                 \* TypeError

(***************************************************************************)
(* Request bodies.  A JSON object body is three bytes, one per member      *)
(* (op, d, t), each an index into the values below; [ is a JSON list; 255  *)
(* is a byte no UTF-8 text contains; anything else is not JSON.            *)
(***************************************************************************)
C2C_MESSAGE_CREATE == <<67, 50, 67>>
GROUP_AT_MESSAGE_CREATE == <<71, 82, 80>>
OTHER_EVENT == <<79, 84, 72>>

OpVals ==
    << JInt(0), JInt(13), JInt(1), Absent, JNull,
       JBool(FALSE), JBool(TRUE), JFloat(0), JFloat(13), JStr(<<48>>) >>

DVals ==
    << Absent,                                                   \* 1  no d
       JNull,                                                    \* 2  "d": null
       EmptyDict,                                                \* 3  "d": {}
       JObj(JStr(<<7>>), JStr(<<1>>), Absent, Absent),           \* 4  token 7, ts 1
       JObj(JStr(<<1>>), JStr(<<7>>), Absent, Absent),           \* 5  token 1, ts 7
       JObj(JStr(<<7>>), Absent, Absent, Absent),                \* 6  no event_ts
       JObj(Absent, JStr(<<1>>), Absent, Absent),                \* 7  no plain_token
       JObj(JStr(<<>>), JStr(<<1, 7>>), Absent, Absent),         \* 8  token "", ts 17
       JObj(JInt(5), JStr(<<1>>), Absent, Absent),               \* 9  token a number
       JObj(JStr(<<7>>), JNull, Absent, Absent),                 \* 10 ts null
       JObj(JInt(5), JInt(5), Absent, Absent),                   \* 11 both numbers
       JObj(JStr(<<Surrogate>>), JStr(<<1>>), Absent, Absent),   \* 12 lone surrogate
       JObj(Absent, Absent, JStr(<<109, 49>>), JStr(<<104, 105>>)), \* 13 id m1, content hi
       JList(1),                                                 \* 14 "d": [0]
       JList(0),                                                 \* 15 "d": []
       JObj(JStr(<<1, 13, 2>>), JStr(<<49>>), Absent, Absent) >> \* 16 token the text of
                                                                 \*    body <<1, 13, 2>>, ts "1"

TVals ==
    << Absent, JStr(C2C_MESSAGE_CREATE), JStr(GROUP_AT_MESSAGE_CREATE),
       JStr(OTHER_EVENT), JStr(<<>>), JNull >>

ListByte == 91
BadByte == 255

\* bytes.decode("utf-8")
decode_utf8(raw) ==
    IF \E i \in 1..Len(raw) : raw[i] = BadByte
    THEN [ok |-> FALSE, text |-> <<>>]               \* UnicodeDecodeError
    ELSE [ok |-> TRUE, text |-> raw]

\* json.loads(text)
json_loads(text) ==
    IF Len(text) = 3 /\ text[1] \in DOMAIN OpVals /\ text[2] \in DOMAIN DVals
                     /\ text[3] \in DOMAIN TVals
    THEN [ok |-> TRUE,
          val |-> [ty |-> "obj", op |-> OpVals[text[1]], d |-> DVals[text[2]],
                   t |-> TVals[text[3]]]]
    ELSE IF text = <<ListByte>>
    THEN [ok |-> TRUE, val |-> [ty |-> "list"]]
    ELSE [ok |-> FALSE, val |-> [ty |-> "none"]]     \* JSONDecodeError

\* write_log of the json.dumps(payload, ensure_ascii=False) line: the file is
\* opened with encoding utf-8, which raises on a lone surrogate
Loggable(payload) ==
    \/ payload.ty # "obj"
    \/ /\ ~HasSurrogate(payload.op) /\ ~HasSurrogate(payload.t)
       /\ \/ payload.d.ty # "obj"
          \/ /\ ~HasSurrogate(payload.d.plain_token) /\ ~HasSurrogate(payload.d.event_ts)
             /\ ~HasSurrogate(payload.d.id) /\ ~HasSurrogate(payload.d.content)

(***************************************************************************)
(* Signatures, hex text and the headers of a request.                      *)
(***************************************************************************)
\* SigningKey(seed).sign(msg).signature: 64 bytes, a function of (seed, msg)
Sign(k, msg) == [len |-> 64, k |-> k, m |-> msg]

\* a byte string of n bytes that is no signature of anything
Junk(n) == [len |-> n, k |-> <<>>, m |-> <<>>]

\* bytes.hex(): lowercase hex text of a byte string
Hex(b) == [hex |-> TRUE, upper |-> FALSE, b |-> b]

\* the same digits written in upper case, as a client may send them
HexUpper(b) == [hex |-> TRUE, upper |-> TRUE, b |-> b]

\* text holding a character that is no hex digit
NonHex == [hex |-> FALSE, upper |-> FALSE, b |-> Junk(0)]

EmptyText == Hex(Junk(0))                            \* ""

\* bytes.fromhex(text): either case, ValueError on anything else
fromhex(text) ==
    IF text.hex THEN [ok |-> TRUE, b |-> text.b] ELSE [ok |-> FALSE, b |-> Junk(0)]

\* VerifyKey.verify(msg, sig) of PyNaCl: a signature that is not 64 bytes long
\* raises nacl.exceptions.ValueError, a wrong one BadSignatureError
verify(k, msg, sig) ==
    IF sig.len # 64 THEN "ValueError"
    ELSE IF sig = Sign(k, msg) THEN "ok"
    ELSE "BadSignatureError"

\* a header of the request: present or not, and its text
Header(text) == [present |-> TRUE, text |-> text]
NoSigHeader == [present |-> FALSE, text |-> EmptyText]
NoTsHeader == [present |-> FALSE, text |-> <<>>]

\* request.headers.get(name, "")
headers_get(h, default) == IF h.present THEN h.text ELSE default

(***************************************************************************)
(* What one run of the route has produced so far.  status 0: the task is   *)
(* suspended in `await client.on_c2c_message_create(message)`; 500: an     *)
(* exception left the route and the server answered for it.                *)
(***************************************************************************)
L(level, msg) == [level |-> level, msg |-> msg]

NoBody == [kind |-> "none"]
EmptyBody == [kind |-> "empty"]
ErrorBody == [kind |-> "error"]
Detail(x) == [kind |-> "detail", detail |-> x]
NoArgs == [given |-> FALSE]

Out(status, body, log, signed, verified, hargs) ==
    [status |-> status, body |-> body, log |-> log, signed |-> signed,
     verified |-> verified, hargs |-> hargs]

\* an uncaught exception: no response of the route, the server's 500
Uncaught(log, signed, verified) == Out(500, ErrorBody, log, signed, verified, NoArgs)

(***************************************************************************)
(* build_message_payload: a new dict with the twelve keys, each from the   *)
(* event or its default.  The events of this model carry id and content.   *)
(***************************************************************************)
build_message_payload(event) ==
    [author |-> EmptyDict,
     channel_id |-> JStr(<<>>),
     content |-> GetOr(event.content, JStr(<<>>)),
     guild_id |-> JStr(<<>>),
     id |-> GetOr(event.id, JStr(<<>>)),
     member |-> EmptyDict,
     message_reference |-> EmptyDict,
     mentions |-> JList(0),
     attachments |-> JList(0),
     seq |-> JInt(0),
     seq_in_channel |-> JStr(<<>>),
     timestamp |-> JStr(<<>>)]

(***************************************************************************)
(* qqbot_callback, from the arrival of the body to the response or to the  *)
(* await of the handler.  k is the seed of _SIGNING_KEY / _VERIFY_KEY.     *)
(***************************************************************************)
\* the parse step with the exception swallowed: the route goes on with {}
parse_stage_swallow(raw) ==
    LET dec == decode_utf8(raw)
        js == IF dec.ok THEN json_loads(dec.text)
                        ELSE [ok |-> FALSE, val |-> [ty |-> "none"]]
    IN  IF js.ok /\ Loggable(js.val)
        THEN [ok |-> TRUE, payload |-> js.val, log |-> <<L("INFO", "payload")>>]
        ELSE [ok |-> TRUE,
              payload |-> [ty |-> "obj", op |-> Absent, d |-> Absent, t |-> Absent],
              log |-> <<L("ERROR", "Receive invalid JSON")>>]

\* try: json.loads(raw.decode("utf-8")); write_log(json.dumps(payload))
\* except Exception: write_log("ERROR", ...); raise HTTPException(400)
parse_stage(raw) ==
    LET dec == decode_utf8(raw)
        js == IF dec.ok THEN json_loads(dec.text)
                        ELSE [ok |-> FALSE, val |-> [ty |-> "none"]]
    IN  IF js.ok /\ Loggable(js.val)
        THEN [ok |-> TRUE, payload |-> js.val, log |-> <<L("INFO", "payload")>>]
        ELSE [ok |-> FALSE, payload |-> js.val,
              log |-> <<L("ERROR", "Receive invalid JSON")>>]

\* the two operands the other way round
challenge_text_swapped(event_ts, plain_token) == PyAdd(plain_token, event_ts)

\* event_ts + plain_token
challenge_text(event_ts, plain_token) == PyAdd(event_ts, plain_token)

\* if op == 13: ... return JSONResponse({"plain_token": ..., "signature": ...})
challenge_stage(payload, log, k) ==
    LET log1 == log \o <<L("INFO", "challenge")>>
        d0 == GetOrNone(payload.d)
        d == IF Truthy(d0) THEN d0 ELSE EmptyDict    \* payload.get("d") or {}
    IN  IF d.ty # "obj"
        THEN Uncaught(log1, <<>>, "none")            \* AttributeError: d.get
        ELSE
          LET plain_token == GetOr(d.plain_token, JStr(<<>>))
              event_ts == GetOr(d.event_ts, JStr(<<>>))
              text == challenge_text(event_ts, plain_token)
          IN  IF ~text.ok \/ text.v.ty # "str" \/ HasSurrogate(text.v)
              THEN Uncaught(log1, <<>>, "none")      \* TypeError, or no .encode
              ELSE
                LET msg == encode_utf8(text.v.s)
                    signature == Hex(Sign(k, msg))
                IN  Out(200,
                        [kind |-> "json", plain_token |-> plain_token,
                         signature |-> signature],
                        log1, <<msg>>, "none", NoArgs)

\* the handler started in the background and the request acknowledged at once
ack_then_handle(log, hargs) == Out(200, EmptyBody, log, <<>>, "ok", hargs)

\* await client.on_c2c_message_create(message): the task is suspended in the
\* handler and has no response yet
await_handler(log, hargs) == Out(0, NoBody, log, <<>>, "ok", hargs)

\* event = payload.get("d", {}) ... return Response(status_code=200)
dispatch_stage(payload, log) ==
    LET event == GetOr(payload.d, EmptyDict)
        event_type == GetOr(payload.t, JStr(<<>>))
    IN  IF PyEqStr(event_type, C2C_MESSAGE_CREATE)
        THEN
          LET log1 == log \o <<L("INFO", "C2C_MESSAGE_CREATE"), L("INFO", "http vars"),
                               L("INFO", "api vars")>>
          IN  IF event.ty # "obj"
              THEN Uncaught(log1, <<>>, "ok")        \* AttributeError: event.get
              ELSE await_handler(log1,
                       [given |-> TRUE,
                        handler |-> "on_c2c_message_create",
                        event_type |-> event_type,
                        event |-> event,
                        event_id |-> GetOr(event.id, JStr(<<>>)),
                        message |-> build_message_payload(event)])
        ELSE Out(200, EmptyBody, log, <<>>, "ok", NoArgs)

\* the message with the timestamp left out
signed_message_body_only(ts, raw) == raw

\* msg = ts.encode("utf-8") + raw: the body as received, not a re-serialisation
signed_message(ts, raw) == encode_utf8(ts) \o raw

\* if op == 0: the header checks, bytes.fromhex, _VERIFY_KEY.verify
event_stage(req, payload, log, k) ==
    LET log1 == log \o <<L("INFO", "event")>>
        sig_hex == headers_get(req.sig, EmptyText)
        ts == headers_get(req.ts, <<>>)
    IN  IF (sig_hex.hex /\ sig_hex.b.len = 0) \/ ts = <<>>
        THEN Out(401, Detail("missing signature headers"), log1, <<>>, "none", NoArgs)
        ELSE
          LET sig == fromhex(sig_hex)
          IN  IF ~sig.ok
              THEN Out(401, Detail("bad signature hex"), log1, <<>>, "none", NoArgs)
              ELSE
                LET msg == signed_message(ts, req.raw)
                    v == verify(k, msg, sig.b)
                IN  CASE v = "BadSignatureError" ->
                           Out(401, Detail("signature verify failed"), log1, <<>>,
                               "bad", NoArgs)
                      [] v = "ValueError" -> Uncaught(log1, <<>>, "raise")
                      [] v = "ok" -> dispatch_stage(payload, log1)

qqbot_callback(req, k) ==
    LET p == parse_stage(req.raw)
    IN  IF ~p.ok
        THEN Out(400, Detail("invalid json"), p.log, <<>>, "none", NoArgs)
        ELSE IF p.payload.ty # "obj"
        THEN Uncaught(p.log, <<>>, "none")           \* AttributeError: payload.get
        ELSE
          LET op == GetOrNone(p.payload.op)
          IN  IF PyEqInt(op, 13) THEN challenge_stage(p.payload, p.log, k)
              ELSE IF PyEqInt(op, 0) THEN event_stage(req, p.payload, p.log, k)
              ELSE Out(200, EmptyBody, p.log, <<>>, "none", NoArgs)

(***************************************************************************)
(* The requests sent to the route.  The platform signs with the key of the *)
(* secret registered for the bot, BOT_SECRET of qqbot_webhook.py; other    *)
(* clients send what they like, here signatures made with the key of       *)
(* another secret, junk bytes and text that is no hex.                     *)
(***************************************************************************)
Request(raw, sig, ts) == [raw |-> raw, sig |-> sig, ts |-> ts]

NoReq == Request(<<>>, NoSigHeader, NoTsHeader)

PlatformKey == seed_from_secret(BOT_SECRET).seed
OtherKey == seed_from_secret(UTILS_BOT_SECRET).seed

Ts1 == <<49>>                                        \* "1"
Ts2 == <<50>>                                        \* "2"
TsWide == <<233>>                                    \* a timestamp that is no ASCII

Unsigned(raw) == Request(raw, NoSigHeader, NoTsHeader)

\* signed by the platform over timestamp + raw body
Signed(raw) == Request(raw, Header(Hex(Sign(PlatformKey, Ts1 \o raw))), Header(Ts1))

\* every way the two headers go wrong, and the way they are right
HeaderCases(raw) ==
    { Unsigned(raw),
      Signed(raw),
      Request(raw, NoSigHeader, Header(Ts1)),
      Request(raw, Header(EmptyText), Header(Ts1)),
      Request(raw, Header(Hex(Sign(PlatformKey, Ts1 \o raw))), NoTsHeader),
      Request(raw, Header(Hex(Sign(PlatformKey, Ts1 \o raw))), Header(<<>>)),
      Request(raw, Header(NonHex), Header(Ts1)),
      Request(raw, Header(Hex(Junk(1))), Header(Ts1)),
      Request(raw, Header(Hex(Junk(65))), Header(Ts1)),
      Request(raw, Header(Hex(Junk(64))), Header(Ts1)),
      Request(raw, Header(Hex(Sign(PlatformKey, Ts2 \o raw))), Header(Ts1)),
      Request(raw, Header(Hex(Sign(PlatformKey, Ts1 \o <<1, 3, 2>>))), Header(Ts1)),
      Request(raw, Header(Hex(Sign(OtherKey, Ts1 \o raw))), Header(Ts1)),
      Request(raw, Header(Hex(Sign(PlatformKey, TsWide \o raw))), Header(TsWide)) }

\* other ways the headers are right: the hex digits in upper case, and a
\* timestamp that is no ASCII, signed over its UTF-8 bytes
ValidVariants(raw) ==
    { Request(raw, Header(HexUpper(Sign(PlatformKey, Ts1 \o raw))), Header(Ts1)),
      Request(raw, Header(Hex(Sign(PlatformKey, encode_utf8(TsWide) \o raw))),
              Header(TsWide)) }

EventRequests ==
    HeaderCases(<<1, 13, 2>>)
    \cup ValidVariants(<<1, 13, 4>>)
    \cup { Signed(<<1, 13, t>>) : t \in DOMAIN TVals }
    \cup { Signed(<<1, d, 2>>) : d \in {1, 2, 14, 15} }
    \cup { Unsigned(<<6, 13, 2>>), Unsigned(<<8, 13, 2>>),
           Signed(<<6, 13, 2>>), Signed(<<8, 3, 2>>) }

ChallengeRequests ==
    { Unsigned(<<2, d, 1>>) : d \in DOMAIN DVals }
    \cup { Unsigned(<<9, 4, 1>>), Signed(<<2, 4, 2>>) }

OtherRequests ==
    { Unsigned(<<o, 1, 1>>) : o \in {3, 4, 5, 7, 10} }
    \cup { Signed(<<o, 13, 2>>) : o \in {3, 4, 7, 10} }

BadRequests ==
    { Unsigned(raw) : raw \in {<<BadByte>>, <<1, BadByte, 2>>, <<>>, <<1, 13>>, <<ListByte>>} }
    \cup { Signed(raw) : raw \in {<<BadByte>>, <<1, 13>>, <<ListByte>>} }

Requests == EventRequests \cup ChallengeRequests \cup OtherRequests \cup BadRequests

(***************************************************************************)
(* The process and the request tasks.                                      *)
(***************************************************************************)
NoOut == Out(0, NoBody, <<>>, <<>>, "none", NoArgs)

IdleTask == [pc |-> "idle", req |-> NoReq, out |-> NoOut]

NoLast == [req |-> NoReq, out |-> NoOut, hres |-> "none"]

\* another task is suspended in its handler
Busy(t) == \E u \in Tasks \ {t} : task[u].pc = "handler"

\* the msg_id values by which a reply names its event: the id of every event
\* that carries one (the reply to an event without id has msg_id "" and is
\* not counted)
MsgIds ==
    {DVals[i].id : i \in {j \in DOMAIN DVals : DVals[j].ty = "obj" /\ DVals[j].id.ty = "str"}}

NoPosts == [m \in MsgIds |-> 0]

IdleCall == [pc |-> "idle", id |-> 0, event_type |-> <<>>, event |-> JNull,
             log |-> <<>>, invoked |-> <<>>, result |-> "none"]

Init ==
    /\ proc = "init"
    /\ secret \in Secrets
    /\ key = <<>>
    /\ task = [t \in Tasks |-> IdleTask]
    /\ last = NoLast
    /\ call = [c \in Calls |-> IdleCall]
    /\ posts = NoPosts
    /\ known = {}
    /\ sink = <<>>
    /\ started = 0

\* _SIGNING_KEY = SigningKey(seed_from_secret(BOT_SECRET)) at import
Startup ==
    /\ proc = "init"
    /\ LET r == seed_from_secret(secret)
       IN  IF r.ok THEN proc' = "serving" /\ key' = r.seed
                   ELSE proc' = "crashed" /\ key' = key
    /\ UNCHANGED <<secret, task, last, call, posts, known, sink, started>>

\* write_log("INFO", "=== 收到Webhook请求 ==="); raw = await request.body()
Receive(t) ==
    /\ proc = "serving"
    /\ task[t].pc = "idle"
    /\ task' = [task EXCEPT ![t] =
                  [pc |-> "body", req |-> NoReq,
                   out |-> [NoOut EXCEPT !.log = <<L("INFO", "request")>>]]]
    /\ UNCHANGED <<proc, secret, key, last, call, posts, known, sink, started>>

\* the body has arrived: the route runs to its response or to the await of
\* the handler
Respond(t, req, o) ==
    \E out \in {[o EXCEPT !.log = task[t].out.log \o o.log]} :
        IF out.status = 0
        THEN /\ task' = [task EXCEPT ![t] =
                           [pc |-> "handler", req |-> req, out |-> out]]
             /\ last' = last
        ELSE /\ task' = [task EXCEPT ![t] = IdleTask]
             /\ last' = [req |-> req, out |-> out, hres |-> "none"]

\* a task that waits for another task's handler before it goes on
runnable_alone(t) == task[t].pc = "body" /\ ~Busy(t)

\* the body has arrived: the event loop resumes the task, whatever the other
\* tasks await
runnable(t) == task[t].pc = "body"

Process(t) ==
    /\ runnable(t)
    /\ \E req \in Requests :
         \E o \in {qqbot_callback(req, key)} :     \* evaluated once
             Respond(t, req, o)
    /\ UNCHANGED <<proc, secret, key, call, posts, known, sink, started>>

(***************************************************************************)
(* A client that does not know the secret.  It sends the bodies it likes,  *)
(* with no signature header or with one it can write down: junk, a         *)
(* signature made with a key of its own, or a signature the route has      *)
(* returned to it in the response to a challenge.                          *)
(***************************************************************************)
ClientBodies == {<<2, 4, 1>>, <<2, 16, 1>>, <<1, 13, 2>>, <<3, 1, 1>>, <<BadByte>>}

ClientSigs(kn) ==
    {NoSigHeader}
    \cup {Header(Hex(x)) : x \in kn \cup {Junk(64), Sign(OtherKey, Ts1 \o <<1, 13, 2>>)}}

ClientRequests(kn) ==
    {Request(raw, sig, ts) :
        raw \in ClientBodies, sig \in ClientSigs(kn), ts \in {NoTsHeader, Header(Ts1)}}

\* the signature of JSONResponse({"plain_token": ..., "signature": ...})
Learned(o) == IF o.body.kind = "json" THEN {fromhex(o.body.signature).b} ELSE {}

\* the route serves a request of that client, who reads the response
ClientProcess(t) ==
    /\ runnable(t)
    /\ \E req \in ClientRequests(known) :
         \E o \in {qqbot_callback(req, key)} :
             /\ Respond(t, req, o)
             /\ known' = known \cup Learned(o)
    /\ UNCHANGED <<proc, secret, key, call, posts, sink, started>>

\* post_c2c_message(msg_id=message.id, ...) delivered the reply and returned:
\* return Response(status_code=200)
HandlerReturn(t) ==
    /\ task[t].pc = "handler"
    /\ LET msg_id == task[t].out.hargs.message.id
       IN  IF msg_id \in MsgIds
           THEN posts[msg_id] < MaxPosts /\ posts' = [posts EXCEPT ![msg_id] = @ + 1]
           ELSE posts' = posts
    /\ last' = [req |-> task[t].req,
                out |-> [task[t].out EXCEPT !.status = 200, !.body = EmptyBody],
                hres |-> "returned"]
    /\ task' = [task EXCEPT ![t] = IdleTask]
    /\ UNCHANGED <<proc, secret, key, call, known, sink, started>>

\* post_c2c_message raised: nothing in the route catches it
HandlerRaise(t) ==
    /\ task[t].pc = "handler"
    /\ last' = [req |-> task[t].req,
                out |-> [task[t].out EXCEPT !.status = 500, !.body = ErrorBody],
                hres |-> "raised"]
    /\ task' = [task EXCEPT ![t] = IdleTask]
    /\ UNCHANGED <<proc, secret, key, call, posts, known, sink, started>>

(***************************************************************************)
(* webhook_handler.dispatch_event, which hands the event to                *)
(* qqbot_utils.handle_event with the module's write_log.  w tells whether  *)
(* a write_log was given.                                                  *)
(***************************************************************************)
EventTypes == {C2C_MESSAGE_CREATE, GROUP_AT_MESSAGE_CREATE, OTHER_EVENT, <<>>}

Events == {EmptyDict, DVals[13], JNull, JList(1)}

Logged(w, entries) == IF w THEN entries ELSE <<>>

\* an unhandled type that is dropped without a word
log_unhandled_silent(w) == <<>>

\* if write_log: write_log("INFO", f"[qqbot_utils] 未处理的事件类型: {event_type}")
log_unhandled(w) == Logged(w, <<L("INFO", "unhandled event type")>>)

\* handle_c2c_message / handle_group_at_message up to the await of the client
\* callback, or to the except clause when event has no .get
handle_message(handler, event, w) ==
    IF event.ty # "obj"
    THEN [pc |-> "done", result |-> "raised", invoked |-> <<>>,
          log |-> Logged(w, <<L("INFO", "enter " \o handler), L("ERROR", handler)>>)]
    ELSE [pc |-> "await", result |-> "none", invoked |-> <<handler>>,
          log |-> Logged(w, <<L("INFO", "enter " \o handler), L("INFO", "http vars"),
                              L("INFO", "api vars")>>)]

handle_event(event_type, event, w) ==
    IF event_type = C2C_MESSAGE_CREATE
    THEN handle_message("on_c2c_message_create", event, w)
    ELSE IF event_type = GROUP_AT_MESSAGE_CREATE
    THEN handle_message("on_group_at_message_create", event, w)
    ELSE [pc |-> "done", result |-> "returned", invoked |-> <<>>,
          log |-> log_unhandled(w)]

\* await handle_event(event_type, event, write_log)
dispatch_event(event_type, event) == handle_event(event_type, event, TRUE)

\* open(path, "w"): every call starts the file afresh
write_log_truncating(file, owner, entries) ==
    IF entries = <<>> THEN file
    ELSE <<[owner |-> owner, entry |-> entries[Len(entries)]]>>

\* with open(path, "a+") as f: f.write(line); f.flush(), once per entry and
\* with no await inside: each line is appended whole.  owner is the call
\* that makes the entries.
write_log(file, owner, entries) ==
    file \o [i \in 1..Len(entries) |-> [owner |-> owner, entry |-> entries[i]]]

DispatchStart(c) ==
    /\ call[c].pc \in {"idle", "done"}
    /\ started < MaxDispatches
    /\ started' = started + 1
    /\ \E event_type \in EventTypes : \E event \in Events :
         \E r \in {dispatch_event(event_type, event)} :
           /\ call' = [call EXCEPT ![c] =
                        [pc |-> r.pc, id |-> started + 1, event_type |-> event_type,
                         event |-> event, log |-> r.log, invoked |-> r.invoked,
                         result |-> r.result]]
           /\ sink' = write_log(sink, started + 1, r.log)
    /\ UNCHANGED <<proc, secret, key, task, last, posts, known>>

\* the client callback returned: write_log("INFO", "... 执行完成")
DispatchReturn(c) ==
    /\ call[c].pc = "await"
    /\ call' = [call EXCEPT ![c].pc = "done", ![c].result = "returned",
                            ![c].log = @ \o <<L("INFO", "done")>>]
    /\ sink' = write_log(sink, call[c].id, <<L("INFO", "done")>>)
    /\ UNCHANGED <<proc, secret, key, task, last, posts, known, started>>

\* the client callback raised: except Exception: write_log("ERROR", ...); raise
DispatchRaise(c) ==
    /\ call[c].pc = "await"
    /\ call' = [call EXCEPT ![c].pc = "done", ![c].result = "raised",
                            ![c].log = @ \o <<L("ERROR", call[c].invoked[1])>>]
    /\ sink' = write_log(sink, call[c].id, <<L("ERROR", call[c].invoked[1])>>)
    /\ UNCHANGED <<proc, secret, key, task, last, posts, known, started>>

NextDispatch ==
    \/ \E c \in Calls : DispatchStart(c)
    \/ \E c \in Calls : DispatchReturn(c)
    \/ \E c \in Calls : DispatchRaise(c)

SpecDispatch == Init /\ [][NextDispatch]_vars

(***************************************************************************)
(* The key derivation alone, over every secret of SeedSecrets.             *)
(***************************************************************************)
InitSeed ==
    /\ proc = "init"
    /\ secret \in SeedSecrets
    /\ key = <<>>
    /\ task = [t \in Tasks |-> IdleTask]
    /\ last = NoLast
    /\ call = [c \in Calls |-> IdleCall]
    /\ posts = NoPosts
    /\ known = {}
    /\ sink = <<>>
    /\ started = 0

NextSeed == Startup

SpecSeed == InitSeed /\ [][NextSeed]_vars

NextClient ==
    \/ Startup
    \/ \E t \in Tasks : Receive(t)
    \/ \E t \in Tasks : ClientProcess(t)
    \/ \E t \in Tasks : HandlerReturn(t)
    \/ \E t \in Tasks : HandlerRaise(t)

SpecClient == Init /\ [][NextClient]_vars

Next ==
    \/ Startup
    \/ \E t \in Tasks : Receive(t)
    \/ \E t \in Tasks : Process(t)
    \/ \E t \in Tasks : HandlerReturn(t)
    \/ \E t \in Tasks : HandlerRaise(t)

Spec == Init /\ [][Next]_vars

\* The event loop runs every task that is ready: a task whose body has
\* arrived is resumed.  Nothing makes a handler's reply call come back.
SpecClientLive == SpecClient /\ \A t \in Tasks : WF_vars(ClientProcess(t))

(***************************************************************************)
(* Reading a finished or suspended run of the route.                       *)
(***************************************************************************)
\* the runs whose outcome is known: the one that completed last, and every
\* task suspended in its handler
Runs ==
    {r \in {last} : r.out.status # 0}
    \cup {[req |-> task[t].req, out |-> task[t].out, hres |-> "none"] :
              t \in {u \in Tasks : task[u].pc = "handler"}}

ValidJson(raw) == decode_utf8(raw).ok /\ json_loads(raw).ok

\* the request passed the route's parse step and the body is a JSON object
ParsedObject(req) == ValidJson(req.raw) /\ Loggable(json_loads(req.raw).val)
                       /\ json_loads(req.raw).val.ty = "obj"

Envelope(req) == json_loads(req.raw).val

\* both headers carried, and the first the hex of the process key's signature
\* over timestamp + raw body
Authentic(req) ==
    /\ req.sig.present /\ req.ts.present /\ req.ts.text # <<>>
    /\ req.sig.text.hex
    /\ req.sig.text.b =
           Sign(seed_from_secret(secret).seed, encode_utf8(req.ts.text) \o req.raw)

HandlerInvoked(r) == r.out.hargs.given

(***************************************************************************)
(* C1.  Authentication gate: a handler is invoked for a request only if    *)
(* the request parsed, had op = 0, carried both signature headers, and the *)
(* signature verified over timestamp + raw body.                           *)
(***************************************************************************)
AuthenticationGate ==
    \A r \in Runs :
        HandlerInvoked(r) =>
            /\ ParsedObject(r.req)
            /\ Envelope(r.req).op = JInt(0)
            /\ Authentic(r.req)

\* The same gate with op compared as the route compares it (op == 0 of
\* Python, which False and 0.0 satisfy too): this much the route enforces.
VerifiedBeforeHandler ==
    \A r \in Runs :
        HandlerInvoked(r) =>
            /\ ParsedObject(r.req)
            /\ PyEqInt(Envelope(r.req).op, 0)
            /\ Authentic(r.req)
            /\ r.out.verified = "ok"

(***************************************************************************)
(* C2.  Every parsed request with op = 0 that is not successfully verified *)
(* is answered 401, whatever the signature header holds.                   *)
(***************************************************************************)
UnverifiedEventIs401 ==
    \A r \in Runs :
        (ParsedObject(r.req) /\ Envelope(r.req).op = JInt(0) /\ ~Authentic(r.req))
            => r.out.status = 401

(***************************************************************************)
(* C3.  A body that is not valid UTF-8 or not valid JSON is answered 400,  *)
(* and for it nothing is signed, nothing verified and no handler invoked.  *)
(***************************************************************************)
MalformedBodyIs400 ==
    \A r \in Runs :
        ~ValidJson(r.req.raw) =>
            /\ r.out.status = 400
            /\ r.out.body = Detail("invalid json")
            /\ r.out.signed = <<>>
            /\ r.out.verified = "none"
            /\ ~HandlerInvoked(r)

\* a malformed body that came with a valid signature over it was answered 400
MalformedBodyWitness ==
    /\ last.out.status = 400
    /\ ~ValidJson(last.req.raw)
    /\ Authentic(last.req)

(***************************************************************************)
(* C4.  Every parsed request with op = 13 is answered 200 with a body      *)
(* {plain_token, signature}, for every value of d.                         *)
(***************************************************************************)
ChallengeAlways200 ==
    \A r \in Runs :
        (ParsedObject(r.req) /\ Envelope(r.req).op = JInt(13))
            => r.out.status = 200 /\ r.out.body.kind = "json"

(***************************************************************************)
(* C5.  For an op = 13 request whose event_ts and plain_token are strings, *)
(* the response echoes plain_token and its signature is the process key's  *)
(* signature of event_ts immediately followed by plain_token: a function   *)
(* of the two strings and the configured secret alone.                     *)
(***************************************************************************)
StringChallenge(req) ==
    /\ ParsedObject(req)
    /\ Envelope(req).op = JInt(13)
    /\ Envelope(req).d.ty = "obj"
    /\ Envelope(req).d.plain_token.ty = "str"
    /\ Envelope(req).d.event_ts.ty = "str"

OtherOpIs200 ==
    \A r \in Runs :
        (ParsedObject(r.req) /\ Envelope(r.req).op \notin {JInt(13), JInt(0)})
            => /\ r.out.status = 200
               /\ r.out.body = EmptyBody
               /\ r.out.signed = <<>>
               /\ r.out.verified = "none"
               /\ ~HandlerInvoked(r)

(***************************************************************************)
(* C7.  When the handler of a verified event fails, the failure is logged  *)
(* and the response is still 200.                                          *)
(***************************************************************************)
HandlerFailureStill200 ==
    last.hres = "raised" =>
        /\ last.out.status = 200
        /\ \E i \in 1..Len(last.out.log) : last.out.log[i].level = "ERROR"

(***************************************************************************)
(* C8.  Every verified op = 0 request whose t is C2C_MESSAGE_CREATE has    *)
(* its handler invoked once, with the envelope's t and d, and is answered  *)
(* 200 with an empty body.                                                 *)
(***************************************************************************)
C2CEventHandled ==
    (/\ last.out.status # 0
     /\ ParsedObject(last.req)
     /\ Envelope(last.req).op = JInt(0)
     /\ Authentic(last.req)
     /\ Envelope(last.req).t = JStr(C2C_MESSAGE_CREATE))
        => /\ HandlerInvoked(last)
           /\ last.out.hargs.event_type = Envelope(last.req).t
           /\ last.out.hargs.event = GetOr(Envelope(last.req).d, EmptyDict)
           /\ last.out.status = 200
           /\ last.out.body = EmptyBody

(***************************************************************************)
(* C9.  Dispatching an event whose type has no handler returns without     *)
(* raising, invokes no handler and writes exactly one INFO log entry.      *)
(***************************************************************************)
Registered(event_type) ==
    event_type \in {C2C_MESSAGE_CREATE, GROUP_AT_MESSAGE_CREATE}

SeedDerivation ==
    LET b == encode_utf8(secret)
    IN  (secret # <<>> /\ proc # "init") =>
            /\ proc = "serving"
            /\ Len(key) = 32
            /\ \A i \in 1..32 : key[i] = b[((i - 1) % Len(b)) + 1]
            /\ Len(b) >= 32 => key = SubSeq(b, 1, 32)

\* a secret of 1..31 bytes whose length does not divide 32 has been expanded
SeedDerivationWitness ==
    /\ proc = "serving"
    /\ Len(encode_utf8(secret)) \in 1..31
    /\ 32 % Len(encode_utf8(secret)) # 0

(***************************************************************************)
(* C11.  The derivation of the empty secret fails, and since the key pair  *)
(* is built at import, a process configured with the empty secret never    *)
(* serves a request: every request that is in flight or was answered was   *)
(* taken by a serving process whose key pair is the 32-byte seed of the    *)
(* configured secret.                                                      *)
(***************************************************************************)
RequestTaken == (\E t \in Tasks : task[t].pc # "idle") \/ last # NoLast

FailFastConfiguration ==
    /\ ~seed_from_secret(<<>>).ok
    /\ secret = <<>> => (proc \in {"init", "crashed"} /\ key = <<>> /\ ~RequestTaken)
    /\ RequestTaken =>
          /\ proc = "serving"
          /\ secret # <<>>
          /\ Len(key) = SeedLen
          /\ key = seed_from_secret(secret).seed

\* the import ran with the empty secret and the process is gone
FailFastConfigurationWitness ==
    /\ secret = <<>>
    /\ proc = "crashed"
    /\ ~RequestTaken

(***************************************************************************)
(* C12.  Event verification accepts exactly the signatures the process key *)
(* made over the timestamp immediately followed by the raw body as it was  *)
(* received: such a signature verifies, and a 64-byte signature made over  *)
(* any other message (one byte of the timestamp or of the body changed,    *)
(* the timestamp left out, another key) is answered 401 and no handler is  *)
(* invoked.                                                                *)
(***************************************************************************)
\* the request reaches _VERIFY_KEY.verify with a signature of 64 bytes
ReachesVerify(req) ==
    /\ ParsedObject(req)
    /\ PyEqInt(Envelope(req).op, 0)
    /\ req.sig.present /\ req.ts.present /\ req.ts.text # <<>>
    /\ req.sig.text.hex
    /\ req.sig.text.b.len = 64

EventVerification ==
    \A r \in Runs :
        ReachesVerify(r.req) =>
            /\ (r.out.verified = "ok") <=> Authentic(r.req)
            /\ ~Authentic(r.req) =>
                  /\ r.out.status = 401
                  /\ r.out.body = Detail("signature verify failed")
                  /\ r.out.verified = "bad"
                  /\ ~HandlerInvoked(r)

\* an event is in its handler after its signature verified, and the same body
\* signed over a timestamp that differs in one byte has been answered 401
EventVerificationWitness ==
    \E t \in Tasks :
        /\ task[t].pc = "handler"
        /\ Authentic(task[t].req)
        /\ last.req.raw = task[t].req.raw
        /\ last.req.ts = Header(Ts1)
        /\ last.req.sig = Header(Hex(Sign(key, Ts2 \o last.req.raw)))
        /\ last.out.status = 401

(***************************************************************************)
(* C13.  Every request that ends in an error (400 for a malformed body,    *)
(* 401 for missing headers, bad hex or a signature mismatch, a handler     *)
(* failure) has written a log entry that records the error before it       *)
(* terminates.                                                             *)
(***************************************************************************)
ErrorLogged(r) == \E i \in 1..Len(r.out.log) : r.out.log[i].level = "ERROR"

ErrorsAreLogged ==
    \A r \in Runs :
        (r.out.status \in {400, 401} \/ r.hres = "raised") => ErrorLogged(r)

(***************************************************************************)
(* C14.  Dispatch is idempotent under redelivery: however often the        *)
(* platform delivers a verified event, after the acknowledgement or while  *)
(* the handler of an earlier delivery is still running, the reply to that  *)
(* event is delivered at most once.                                        *)
(***************************************************************************)
RetryIdempotent == \A m \in MsgIds : posts[m] <= 1

HandlerOf(event_type) ==
    IF event_type = C2C_MESSAGE_CREATE THEN "on_c2c_message_create"
    ELSE "on_group_at_message_create"

RoutingByType ==
    \A r \in Runs :
        (/\ ParsedObject(r.req)
         /\ Envelope(r.req).op = JInt(0)
         /\ Authentic(r.req)
         /\ GetOr(Envelope(r.req).d, EmptyDict).ty = "obj"
         /\ Envelope(r.req).t.ty = "str"
         /\ Registered(Envelope(r.req).t.s))
            => /\ HandlerInvoked(r)
               /\ r.out.hargs.handler = HandlerOf(Envelope(r.req).t.s)

\* The same routing in handle_event, where it holds: a registered type with
\* a mapping as data invokes its own handler once and no other.
HandleEventRouting ==
    \A c \in Calls :
        (call[c].pc # "idle" /\ Registered(call[c].event_type) /\ call[c].event.ty = "obj")
            => call[c].invoked = <<HandlerOf(call[c].event_type)>>

(***************************************************************************)
(* C17.  Every request ends in one response whose status is 200, 400 or    *)
(* 401, whatever its body and headers: no request ends in an exception     *)
(* that leaves the route (a 500).                                          *)
(***************************************************************************)
TerminalStatus ==
    last # NoLast => last.out.status \in {200, 400, 401}

(***************************************************************************)
(* C18.  Challenge signatures cannot authenticate events: whatever op = 13 *)
(* requests a client that does not know the secret has made, no op = 0     *)
(* request of that client passes verification and no handler is invoked    *)
(* for it.                                                                 *)
(***************************************************************************)
ChallengeNotAnOracle ==
    \A r \in Runs : r.out.verified # "ok" /\ ~HandlerInvoked(r)

(***************************************************************************)
(* C19.  Log writes are serialized: with several calls in flight, each     *)
(* suspended only at its await, every element of the sink is one whole     *)
(* entry of one call, and the entries of a call stand in the sink in the   *)
(* order the call made them.                                               *)
(***************************************************************************)
OwnLines(c) == SelectSeq(sink, LAMBDA line : line.owner = call[c].id)

LogSerialized ==
    /\ \A i \in 1..Len(sink) :
          /\ sink[i].owner \in 1..started
          /\ sink[i].entry.level \in {"INFO", "ERROR"}
    /\ \A c \in Calls :
          call[c].pc # "idle" =>
              /\ Len(OwnLines(c)) = Len(call[c].log)
              /\ \A i \in 1..Len(call[c].log) : OwnLines(c)[i].entry = call[c].log[i]

\* the lines of two calls are interleaved in the sink: a line of one call
\* stands between two lines of the other
LogSerializedWitness ==
    \E i, j, k \in 1..Len(sink) :
        /\ i < j /\ j < k
        /\ sink[i].owner = sink[k].owner
        /\ sink[j].owner # sink[i].owner

(***************************************************************************)
(* C20.  No request blocks on another: while a verified request is         *)
(* suspended in its handler, every other request whose body has arrived    *)
(* can take its next step, which answers it (or, for an event, enters a    *)
(* handler of its own); and the key pair, the only state the requests      *)
(* share, is never changed once the process serves.                        *)
(***************************************************************************)
NoBlocking ==
    /\ [][proc = "serving" => (key' = key /\ secret' = secret)]_vars
    /\ [](\A u \in Tasks : (task[u].pc = "body" /\ Busy(u)) => ENABLED Process(u))

\* The same as progress, for the requests of the client of SpecClient: with
\* the other request suspended for ever, the request is answered in the end.
EventuallyAnswered ==
    \A u \in Tasks :
        (task[u].pc = "body" /\ Busy(u)) ~> (task[u].pc # "body")

\* a verified event is suspended in its handler, the body of another request
\* has arrived, and a request has been answered
NoBlockingWitness ==
    /\ \E t, u \in Tasks :
          /\ task[t].pc = "handler" /\ Authentic(task[t].req)
          /\ task[u].pc = "body"
    /\ last.out.status = 200

====
